---- MODULE Spec2Model ----
(***************************************************************************)
(* multipledispatch/variadic.py: variadic signature types.                 *)
(*                                                                         *)
(* Python objects are records whose field meta is the name of type(obj):   *)
(*   a class            [meta |-> "type", name |-> "int"]                  *)
(*   typing.Union[...]  [meta |-> "Union", args |-> {classes}]             *)
(*   typing.Tuple[X, ...]  [meta |-> "Tuple", elem |-> X]                  *)
(*   the value 42       [meta |-> "int", value |-> 42]                     *)
(*   the class Variadic [meta |-> "VariadicSignatureMeta", ...]            *)
(*   a Variadic[...]    [meta |-> "VariadicSignatureType", name, id,       *)
(*                       variadic_type]                                    *)
(* The field id of a Variadic[...] type is the identity of the object.     *)
(***************************************************************************)
EXTENDS Integers, Sequences, FiniteSets, TLC

VARIABLES heap, made, last

vars == <<heap, made, last>>

\* Bounds of the model.
\* MaxPatterns: the Variadic[...] types alive at once; MaxMembers: the members
\* of their subscripts, counted over all of them.
MaxPatterns == 2
MaxMembers == 5

\* Width of a hash value.
HashMod == 65536

----------------------------------------------------------------------------
\* The host's objects.

Class(n) == [meta |-> "type", name |-> n]

int == Class("int")
bool == Class("bool")
str == Class("str")
float == Class("float")

FortyTwo == [meta |-> "int", value |-> 42]

None == [meta |-> "NoneType"]

Variadic == [meta |-> "VariadicSignatureMeta", name |-> "Variadic"]

Classes == {int, bool, str, float}

\* typing.Union[X, Y, ...] of two or more classes.
UnionOf(S) == [meta |-> "Union", args |-> S]

Unions == {UnionOf(S) : S \in {T \in SUBSET Classes : Cardinality(T) >= 2}}

OrdinaryTypes == Classes \cup Unions

\* typing.Tuple[X, ...]
TupleOf(t) == [meta |-> "Tuple", elem |-> t]

\* isinstance(x, type): classes only (a typing.Union is not a class).
IsClass(x) == x.meta \in {"type", "VariadicSignatureMeta", "VariadicSignatureType"}

\* What typing.Union accepts as a parameter.
IsTypeArg(x) == IsClass(x) \/ x.meta = "Union"

\* bool(x): a class defines neither __bool__ nor __len__ for itself.
Truthy(x) == IF x.meta = "int" THEN x.value # 0 ELSE TRUE

\* type(x) of the subscript of Variadic[...] (arg.isTuple: the subscript is a tuple).
TypeOf(arg) ==
    IF arg.isTuple THEN Class("tuple")
    ELSE IF arg.items[1].meta = "int" THEN int
    ELSE Class(arg.items[1].meta)

\* The builtin class hierarchy: bool is a subclass of int.
issubclass(c, d) == c = d \/ (c = bool /\ d = int)

----------------------------------------------------------------------------
\* pytypes and typing.

is_Union(t) == t.meta = "Union"

get_Union_params(t) == t.args

Alternatives(t) == IF is_Union(t) THEN get_Union_params(t) ELSE {t}

\* pytypes.is_subtype on classes and unions: a union on the left needs all of
\* its alternatives, a union on the right needs one.
is_subtype_plain(a, b) ==
    \A x \in Alternatives(a) : \E y \in Alternatives(b) : issubclass(x, y)

\* pytypes.is_subtype: Tuple[X, ...] against Tuple[Y, ...] compares X with Y.
is_subtype(a, b) ==
    IF a.meta = "Tuple" /\ b.meta = "Tuple" THEN is_subtype_plain(a.elem, b.elem)
    ELSE IF a.meta = "Tuple" \/ b.meta = "Tuple" THEN FALSE
    ELSE is_subtype_plain(a, b)

\* typing.Union[vt] raises TypeError on no parameters or on a non-type parameter.
UnionRaises(vt) == Len(vt) = 0 \/ \E i \in 1..Len(vt) : ~IsTypeArg(vt[i])

\* typing.Union[vt]: nested unions are flattened, duplicates dropped, the order
\* forgotten; a union of one type is that type.
typing_Union(vt) ==
    LET params == UNION {Alternatives(vt[i]) : i \in 1..Len(vt)}
    IN  IF Cardinality(params) = 1 THEN CHOOSE t \in params : TRUE
        ELSE UnionOf(params)

----------------------------------------------------------------------------
\* utils.typename

RECURSIVE JoinNames(_)
JoinNames(vt) ==
    IF Len(vt) = 0 THEN ""
    ELSE IF Len(vt) = 1 THEN vt[1].name
    ELSE vt[1].name \o ", " \o JoinNames(Tail(vt))

\* typename raises TypeError on a member that has no __name__ and no len().
typenameRaises(vt) == \E i \in 1..Len(vt) : ~IsClass(vt[i])

\* typename of a tuple: the members' names in the order given.
typename(vt) ==
    IF Len(vt) = 1 THEN vt[1].name ELSE "(" \o JoinNames(vt) \o ")"

----------------------------------------------------------------------------
\* safe_subtype(a, b)

safe_subtype_all(a, b) ==
    IF is_Union(a)
    THEN \A tp \in get_Union_params(a) : is_subtype(tp, b)
    ELSE is_subtype(a, b)

safe_subtype(a, b) ==
    IF is_Union(a)
    THEN \E tp \in get_Union_params(a) : is_subtype(tp, b)
    ELSE is_subtype(a, b)

----------------------------------------------------------------------------
\* isvariadic(obj)

isvariadic_anyclass(obj) == IsClass(obj)

isvariadic(obj) == obj.meta = "VariadicSignatureType"

----------------------------------------------------------------------------
\* VariadicSignatureMeta.__getitem__

\* An order of the classes, for a label built from the members' set instead of
\* the tuple given.
RECURSIVE Sorted(_)
Sorted(S) ==
    IF S = {} THEN <<>>
    ELSE LET m == CHOOSE x \in S : \A y \in S : Len(x.name) <= Len(y.name)
         IN  <<m>> \o Sorted(S \ {m})

NewType_canonical(vt, id) ==
    [meta |-> "VariadicSignatureType",
     name |-> "Variadic[" \o typename(Sorted(Alternatives(typing_Union(vt)))) \o "]",
     variadic_type |-> typing_Union(vt),
     id |-> id]

\* VariadicSignatureType(name, (), dict(variadic_type=typing.Union[vt]))
NewType(vt, id) ==
    [meta |-> "VariadicSignatureType",
     name |-> "Variadic[" \o typename(vt) \o "]",
     variadic_type |-> typing_Union(vt),
     id |-> id]

Raise(e) == [raised |-> e, value |-> None]

Return(v) == [raised |-> "", value |-> v]

\* Variadic[arg]; arg.items is the subscript as a tuple, arg.isTuple tells
\* whether it was written as one.
Meta_getitem(arg, id) ==
    IF ~((arg.isTuple \/ IsClass(arg.items[1])) \/ Truthy(TypeOf(arg)))
    THEN Raise("ValueError")
    ELSE LET variadic_type == arg.items
         IN  IF typenameRaises(variadic_type) \/ UnionRaises(variadic_type)
             THEN Raise("TypeError")
             ELSE Return(NewType(variadic_type, id))

----------------------------------------------------------------------------
\* VariadicSignatureType

VST_subclasscheck_reversed(self, subclass) ==
    LET other_type == IF isvariadic(subclass) THEN subclass.variadic_type
                      ELSE subclass
    IN  is_subtype(TupleOf(self.variadic_type), TupleOf(other_type))

VST_subclasscheck_safe(self, subclass) ==
    LET other_type == IF isvariadic(subclass) THEN subclass.variadic_type
                      ELSE subclass
    IN  safe_subtype(other_type, self.variadic_type)

VST_subclasscheck(self, subclass) ==
    LET other_type == IF isvariadic(subclass) THEN subclass.variadic_type
                      ELSE subclass
    IN  is_subtype(TupleOf(other_type), TupleOf(self.variadic_type))

VST_eq_identity(self, other) == isvariadic(other) /\ self.id = other.id

VST_eq(self, other) ==
    isvariadic(other) /\ self.variadic_type = other.variadic_type

\* hash() of a class is taken from its address.
ClassAddr(c) ==
    CASE c.name = "int" -> 9408
      [] c.name = "bool" -> 9440
      [] c.name = "str" -> 11296
      [] c.name = "float" -> 10112
      [] c.name = "VariadicSignatureType" -> 20512
      [] OTHER -> 30016

RECURSIVE SumOver(_)
SumOver(S) ==
    IF S = {} THEN 0
    ELSE LET x == CHOOSE y \in S : TRUE
         IN  (((ClassAddr(x) * 7 + 3) % HashMod) + SumOver(S \ {x})) % HashMod

\* hash(t): of a class its address, of a typing.Union the hash of the frozenset
\* of its parameters.
hash_type(t) ==
    IF is_Union(t) THEN SumOver(get_Union_params(t))
    ELSE ClassAddr(t) % HashMod

\* hash((x, y))
hash_pair(x, y) == (x * 31 + y) % HashMod

VST_hash_identity(self) ==
    hash_pair(hash_type(Class("VariadicSignatureType")), (self.id * 16) % HashMod)

VST_hash(self) ==
    hash_pair(hash_type(Class("VariadicSignatureType")), hash_type(self.variadic_type))

----------------------------------------------------------------------------
\* The calls a client makes.

SpecElems == {int, str, FortyTwo}

TuplesUpTo(n) == UNION {[1..k -> SpecElems] : k \in 0..n}

\* The subscripts of Variadic[...] of at most n members: one object, or a tuple
\* of objects.
Args(n) ==
    {[isTuple |-> FALSE, items |-> <<e>>] : e \in {x \in SpecElems : n >= 1}}
    \cup {[isTuple |-> TRUE, items |-> t] : t \in TuplesUpTo(n)}

Call(op, self, other, ret) == [op |-> op, self |-> self, other |-> other, ret |-> ret]

Patterns == {heap[i] : i \in 1..Len(heap)}

RECURSIVE MembersGiven(_)
MembersGiven(m) == IF m = <<>> THEN 0 ELSE Len(Head(m)) + MembersGiven(Tail(m))

\* The ordinary types a client compares with.
SomeUnions ==
    {UnionOf({int, float}), UnionOf({int, bool}), UnionOf({int, str}),
     UnionOf({str, float})}

Candidates == Classes \cup SomeUnions

Allowed == {p.variadic_type : p \in Patterns}

Init ==
    /\ heap = <<>>
    /\ made = <<>>
    /\ last = Call("none", None, None, None)

\* Variadic[arg]
Create(arg) ==
    /\ Len(heap) < MaxPatterns
    /\ LET r == Meta_getitem(arg, Len(heap) + 1)
       IN  /\ heap' = IF r.raised = "" THEN Append(heap, r.value) ELSE heap
           /\ made' = IF r.raised = "" THEN Append(made, arg.items) ELSE made
           /\ last' = Call("getitem", Variadic, arg,
                           IF r.raised = "" THEN r.value ELSE [meta |-> r.raised])

\* p == other
Eq(p, other) ==
    /\ last' = Call("eq", p, other, VST_eq(p, other))
    /\ UNCHANGED <<heap, made>>

\* hash(p)
Hash(p) ==
    /\ last' = Call("hash", p, None, VST_hash(p))
    /\ UNCHANGED <<heap, made>>

\* issubclass(candidate, p)
SubclassCheck(p, candidate) ==
    /\ last' = Call("subclasscheck", p, candidate, VST_subclasscheck(p, candidate))
    /\ UNCHANGED <<heap, made>>

\* isvariadic(obj)
IsVariadic(obj) ==
    /\ last' = Call("isvariadic", None, obj, isvariadic(obj))
    /\ UNCHANGED <<heap, made>>

Next ==
    \/ \E arg \in Args(MaxMembers - MembersGiven(made)) : Create(arg)
    \/ \E p \in Patterns, other \in Patterns \cup Allowed \cup {int, Variadic} :
          Eq(p, other)
    \/ \E p \in Patterns : Hash(p)
    \/ \E p \in Patterns, c \in Patterns \cup Candidates : SubclassCheck(p, c)
    \/ \E obj \in Patterns \cup Allowed \cup Candidates \cup {Variadic, FortyTwo} :
          IsVariadic(obj)

Spec == Init /\ [][Next]_vars

----------------------------------------------------------------------------
\* safe_subtype as a function of its two arguments.

InitOracle ==
    /\ heap = <<>>
    /\ made = <<>>
    /\ \E a \in OrdinaryTypes, b \in OrdinaryTypes :
          last = Call("call safe_subtype", a, b, None)

SafeSubtype ==
    /\ last.op = "call safe_subtype"
    /\ last' = Call("safe_subtype", last.self, last.other,
                    safe_subtype(last.self, last.other))
    /\ UNCHANGED <<heap, made>>

SpecOracle == InitOracle /\ [][SafeSubtype]_vars

----------------------------------------------------------------------------
\* Properties.

\* The member types a Variadic[...] type allows.
MembersOf(p) == Alternatives(p.variadic_type)

\* A subscript the documentation accepts: a type, or a non-empty tuple of types.
ValidSubscript(arg) ==
    /\ Len(arg.items) > 0
    /\ \A i \in 1..Len(arg.items) : arg.items[i] \in Classes \cup Unions

\* C1: p == q holds exactly when q is a Variadic[...] type with the same set of
\* members as p, whatever the order and the duplicates of the subscripts and
\* whether or not p and q are one object; p never equals an ordinary type.
C1_EqualityIsSetEquality ==
    /\ \A p \in Patterns, q \in Patterns :
          VST_eq(p, q) <=> MembersOf(p) = MembersOf(q)
    /\ last.op = "eq" =>
          (last.ret <=> (/\ last.other \in Patterns
                         /\ MembersOf(last.other) = MembersOf(last.self)))

C1_Witness ==
    /\ last.op = "eq"
    /\ last.ret = TRUE
    /\ last.self.id # last.other.id
    /\ made[last.self.id] = <<int, str>>
    /\ made[last.other.id] = <<int, str, int>>

\* C2: Variadic[...] types that compare equal, or have the same set of members,
\* have the same hash, and hash(p) returns that value.
C2_EqualImpliesSameHash ==
    /\ \A p \in Patterns, q \in Patterns :
          (VST_eq(p, q) \/ MembersOf(p) = MembersOf(q)) => VST_hash(p) = VST_hash(q)
    /\ last.op = "hash" =>
          \A q \in Patterns :
              MembersOf(q) = MembersOf(last.self) => VST_hash(q) = last.ret

C2_Witness ==
    /\ last.op = "hash"
    /\ \E q \in Patterns :
          /\ q.id # last.self.id
          /\ q.name # last.self.name
          /\ VST_eq(last.self, q)
          /\ VST_hash(q) = last.ret

\* C3: issubclass(T, P) for a class T is true exactly when T is a subclass of a
\* member of P; with P = Variadic[(int, str)], int and str pass and float fails.
C3_ClassAgainstPattern ==
    (last.op = "subclasscheck" /\ last.other \in Classes) =>
        /\ last.ret <=> \E m \in MembersOf(last.self) : issubclass(last.other, m)
        /\ MembersOf(last.self) = {int, str} =>
              (last.ret <=> last.other \in {int, bool, str})

C3_Witness ==
    /\ last.op = "subclasscheck"
    /\ MembersOf(last.self) = {int, str}
    /\ last.other = float
    /\ last.ret = FALSE

\* C4: issubclass(C, S) for Variadic[...] types C and S is true exactly when
\* every member of C is a subclass of some member of S; it is reflexive.
C4_PatternAgainstPattern ==
    (last.op = "subclasscheck" /\ last.other \in Patterns) =>
        /\ last.ret <=>
              \A c \in MembersOf(last.other) :
                  \E m \in MembersOf(last.self) : issubclass(c, m)
        /\ MembersOf(last.other) = MembersOf(last.self) => last.ret

C4_Witness ==
    /\ last.op = "subclasscheck"
    /\ last.other \in Patterns
    /\ MembersOf(last.self) = {int}
    /\ MembersOf(last.other) = {int, str}
    /\ last.ret = FALSE

\* C5, as stated: with Variadic[int] as the receiver and Variadic[(int, str)] as
\* the candidate the test is true, and with the roles exchanged it is false.
C5_AsStated ==
    (last.op = "subclasscheck" /\ last.other \in Patterns) =>
        /\ (MembersOf(last.self) = {int} /\ MembersOf(last.other) = {int, str})
              => last.ret = TRUE
        /\ (MembersOf(last.self) = {int, str} /\ MembersOf(last.other) = {int})
              => last.ret = FALSE

\* C5, amended: with Variadic[(int, str)] as the receiver and Variadic[int] as
\* the candidate the test is true, and with the roles exchanged it is false.
C5_RolesExchanged ==
    (last.op = "subclasscheck" /\ last.other \in Patterns) =>
        /\ (MembersOf(last.self) = {int, str} /\ MembersOf(last.other) = {int})
              => last.ret = TRUE
        /\ (MembersOf(last.self) = {int} /\ MembersOf(last.other) = {int, str})
              => last.ret = FALSE

C5_Witness ==
    /\ last.op = "subclasscheck"
    /\ last.other \in Patterns
    /\ MembersOf(last.self) = {int, str}
    /\ MembersOf(last.other) = {int}
    /\ last.ret = TRUE

\* C6: Variadic[arg] raises ValueError whenever arg is neither a type nor a
\* non-empty tuple of types, and returns no Variadic[...] type then.
C6_InvalidSubscriptRaisesValueError ==
    (last.op = "getitem" /\ ~ValidSubscript(last.other)) =>
        last.ret.meta = "ValueError"

\* C7: safe_subtype(a, b) for a union a is true exactly when is_subtype holds of
\* at least one alternative of a; for any other a it is is_subtype(a, b).
C7_SafeSubtypeIsExistential ==
    last.op = "safe_subtype" =>
        IF last.self \in Unions
        THEN last.ret <=> \E tp \in last.self.args : is_subtype(tp, last.other)
        ELSE last.ret <=> is_subtype(last.self, last.other)

C7_Witness ==
    /\ last.op = "safe_subtype"
    /\ last.self = UnionOf({int, float})
    /\ last.other = int
    /\ last.ret = TRUE

\* C8, as stated: issubclass(U, P) for a union U is true exactly when one of the
\* alternatives of U alone passes the test against P.
C8_AsStated ==
    (last.op = "subclasscheck" /\ last.other \in Unions) =>
        (last.ret <=>
            \E tp \in last.other.args : VST_subclasscheck(last.self, tp))

\* C8, amended: issubclass(U, P) for a union U is true exactly when every
\* alternative of U alone passes the test against P, as for a Variadic[...]
\* candidate with the members of U.
C8_UnionCandidateIsUniversal ==
    (last.op = "subclasscheck" /\ last.other \in Unions) =>
        /\ last.ret <=>
              \A tp \in last.other.args : VST_subclasscheck(last.self, tp)
        /\ \A q \in Patterns :
              MembersOf(q) = last.other.args =>
                  (last.ret <=> VST_subclasscheck(last.self, q))

C8_Witness ==
    /\ last.op = "subclasscheck"
    /\ last.other = UnionOf({int, float})
    /\ MembersOf(last.self) = {int}
    /\ last.ret = FALSE

\* C9: isvariadic(obj) is true exactly when obj is a Variadic[...] type; it is
\* false of classes, unions, the type a Variadic[...] allows and Variadic.
C9_IsVariadicIffCreated ==
    last.op = "isvariadic" =>
        /\ last.ret \in BOOLEAN
        /\ last.ret <=> last.other \in Patterns

C9_Witness ==
    /\ last.op = "isvariadic"
    /\ last.other \in Patterns
    /\ last.ret = TRUE

====
